---- MODULE Spec2Model ----
(***************************************************************************)
(* Salary_pred: the two Streamlit scripts of the repository,               *)
(*   src/app.py                            (variant "app")                 *)
(*   src/.ipynb_checkpoints/app-checkpoint.py  (variant "checkpoint")      *)
(* modelled as a state machine whose steps are script runs: the first run  *)
(* (which fills the loader caches), reruns caused by a page selection or a *)
(* widget change, and the rerun caused by a click on the Predict button.   *)
(* A pandas DataFrame of one row is a record of a column sequence and a    *)
(* value sequence; the trained model is opaque and its predict call either *)
(* returns a salary or raises.                                             *)
(***************************************************************************)
EXTENDS Integers, Sequences, FiniteSets, TLC

VARIABLES
    variant,        \* which script the process runs
    loaded,         \* the cached loaders have run (first script run done)
    rf_model,       \* the loaded model object, or None
    feature_names,  \* the loaded Feature Schema (Some(list)), or NoneVal
    model_error,    \* error text of the model loader, or None
    features_err,   \* error text of load_features (checkpoint), or None
    data,           \* the loaded dataset, or None
    data_error,     \* error text of load_data, or None
    page,           \* the sidebar radio's value
    w,              \* the input widgets' values (Raw Input and currency)
    clicked,        \* the last script run was caused by a Predict click
    X_input,        \* the frame built by that run (Some(frame)), or NoneVal
    calls,          \* model.predict calls made by the last script run
    pred,           \* what model.predict did in the last script run
    out,            \* what the last script run rendered
    edits,          \* widget changes made so far
    load_runs,      \* executions of the cached loaders' bodies
    load_log,       \* the model file's state and the deserializers tried on it
    memo            \* history: a remembered click and the last frame built

vars == <<variant, loaded, rf_model, feature_names, model_error, features_err,
          data, data_error, page, w, clicked, X_input, calls, pred, out, edits,
          load_runs, load_log, memo>>

-----------------------------------------------------------------------------
(* Python values *)

None == "None"
NoneVal == <<>>
Some(x) == <<x>>
IsNone(o) == o = NoneVal
Val(o) == o[1]

ModelObject == "model"
DataFrameObject == "data"

IntCell(n) == [kind |-> "int", n |-> n, s |-> ""]
StrCell(t) == [kind |-> "str", n |-> 0, s |-> t]
BoolInt(b) == IF b THEN 1 ELSE 0

-----------------------------------------------------------------------------
(* Bounds of the model and the domains of the widgets *)

YearSpan == 1
MaxEdits == 2

MinWorkYear == 2020
MaxWorkYear == 2030
DefaultWorkYear == 2024
USD_TO_INR == 83

Variants == {"app", "checkpoint"}
JobTitles == {"Data Scientist", "ML Engineer"}
Countries == {"IN", "US"}
WorkYears == {y \in MinWorkYear..MaxWorkYear :
                 y >= DefaultWorkYear /\ y <= DefaultWorkYear + YearSpan}
Salaries == {60000}
PredictErrors == {"ValueError: feature names mismatch"}
FileStates == {"missing", "corrupt", "pickle_only", "ok"}

experience_map == [EN |-> 1, MI |-> 2, SE |-> 3, EX |-> 4]
company_size_map == [S |-> 1, M |-> 2, L |-> 3]
employment_map == [PT |-> 1, FL |-> 2, CT |-> 3, FT |-> 4]

RemoteOptions(v) == IF v = "app" THEN {0, 50, 100} ELSE {0, 25, 50, 75, 100}
CurrencyOptions == {"USD", "INR", "Both"}

RawFields == {"experience_level", "employment_type", "job_title",
              "company_size", "company_location", "work_year",
              "employee_residence", "remote_ratio"}

WidgetOptions(v, f) ==
    CASE f = "experience_level" -> DOMAIN experience_map
      [] f = "employment_type" -> DOMAIN employment_map
      [] f = "company_size" -> DOMAIN company_size_map
      [] f = "job_title" -> JobTitles
      [] f = "company_location" -> Countries
      [] f = "employee_residence" -> Countries
      [] f = "work_year" -> WorkYears
      [] f = "remote_ratio" -> RemoteOptions(v)
      [] f = "currency" -> CurrencyOptions

WidgetFields(v) == IF v = "app" THEN RawFields \cup {"currency"} ELSE RawFields

WidgetDefaults(v) ==
    IF v = "app"
    THEN [experience_level |-> "EN", employment_type |-> "PT",
          job_title |-> "Data Scientist", company_size |-> "S",
          company_location |-> "US", work_year |-> DefaultWorkYear,
          employee_residence |-> "IN", remote_ratio |-> 50,
          currency |-> "USD"]
    ELSE [experience_level |-> "EN", employment_type |-> "FT",
          job_title |-> "Data Scientist", company_size |-> "S",
          company_location |-> "IN", work_year |-> DefaultWorkYear + YearSpan,
          employee_residence |-> "IN", remote_ratio |-> 100,
          currency |-> "USD"]

RawInput(wd) == [f \in RawFields |-> wd[f]]

-----------------------------------------------------------------------------
(* Feature Schemas the feature-names file may hold *)

ExampleSchema == <<"experience_encoded", "company_size_encoded",
                   "job_Data Scientist", "remote_ratio">>

FullSchema == <<"work_year", "remote_ratio", "experience_encoded",
                "company_size_encoded", "employment_type_encoded",
                "same_location", "is_remote", "is_hybrid",
                "job_Data Scientist", "emp_country_IN", "emp_country_US",
                "comp_country_US">>

Reverse(s) == [i \in 1..Len(s) |-> s[Len(s) + 1 - i]]

RawSchema == <<"experience_level", "remote_ratio", "experience_encoded",
               "job_title">>

Schemas == {ExampleSchema, FullSchema, Reverse(FullSchema), RawSchema}

-----------------------------------------------------------------------------
(* One-row DataFrames *)

Columns(df) == {df.cols[i] : i \in 1..Len(df.cols)}

ZeroFrameReused(names) ==
    IF memo.last # <<>> /\ memo.last[1].cols = names
    THEN memo.last[1]
    ELSE [cols |-> names, vals |-> [i \in 1..Len(names) |-> IntCell(0)]]

ZeroFrame(names) ==
    [cols |-> names, vals |-> [i \in 1..Len(names) |-> IntCell(0)]]

LocSet(df, name, v) ==
    IF name \in Columns(df)
    THEN [df EXCEPT !.vals = [i \in 1..Len(df.cols) |->
                                 IF df.cols[i] = name THEN v ELSE df.vals[i]]]
    ELSE [cols |-> Append(df.cols, name), vals |-> Append(df.vals, v)]

CellOf(df, name) ==
    df.vals[CHOOSE i \in 1..Len(df.cols) : df.cols[i] = name]

SelectColumns(df, names) ==
    [cols |-> names, vals |-> [i \in 1..Len(names) |-> CellOf(df, names[i])]]

-----------------------------------------------------------------------------
(* src/app.py: the Feature Encoder of the Predict handler *)

same_location_self(raw) ==
    BoolInt(raw.employee_residence = raw.employee_residence)
is_remote_atleast(raw) == BoolInt(raw.remote_ratio >= 50)

same_location(raw) == BoolInt(raw.employee_residence = raw.company_location)
is_remote(raw) == BoolInt(raw.remote_ratio = 100)
is_hybrid(raw) == BoolInt(raw.remote_ratio = 50)

EncodeBasic(df, raw) ==
    LET d1 == LocSet(df, "experience_encoded",
                     IntCell(experience_map[raw.experience_level]))
        d2 == LocSet(d1, "company_size_encoded",
                     IntCell(company_size_map[raw.company_size]))
        d3 == LocSet(d2, "employment_type_encoded",
                     IntCell(employment_map[raw.employment_type]))
        d4 == LocSet(d3, "remote_ratio", IntCell(raw.remote_ratio))
        d5 == LocSet(d4, "work_year", IntCell(raw.work_year))
        d6 == LocSet(d5, "same_location", IntCell(same_location(raw)))
        d7 == LocSet(d6, "is_remote", IntCell(is_remote(raw)))
        d8 == LocSet(d7, "is_hybrid", IntCell(is_hybrid(raw)))
    IN  d8

job_col(raw) == "job_" \o raw.job_title
emp_col(raw) == "emp_country_" \o raw.employee_residence
comp_col(raw) == "comp_country_" \o raw.company_location

OneHotAlways(df, col) == LocSet(df, col, IntCell(1))

OneHot(df, col) == IF col \in Columns(df) THEN LocSet(df, col, IntCell(1)) ELSE df

EncodeOneHot(df, raw) ==
    OneHot(OneHot(OneHot(df, job_col(raw)), emp_col(raw)), comp_col(raw))

AppEncode(names, raw) == EncodeOneHot(EncodeBasic(ZeroFrame(names), raw), raw)

-----------------------------------------------------------------------------
(* src/.ipynb_checkpoints/app-checkpoint.py: input_df and its alignment *)

InputDf(raw) ==
    [cols |-> <<"experience_level", "employment_type", "job_title",
                "remote_ratio", "company_size", "work_year",
                "employee_residence", "company_location">>,
     vals |-> <<StrCell(raw.experience_level), StrCell(raw.employment_type),
                StrCell(raw.job_title), IntCell(raw.remote_ratio),
                StrCell(raw.company_size), IntCell(raw.work_year),
                StrCell(raw.employee_residence), StrCell(raw.company_location)>>]

RECURSIVE FillMissing(_, _, _)
FillMissing(df, features, i) ==
    IF i > Len(features) THEN df
    ELSE FillMissing(IF features[i] \notin Columns(df)
                     THEN LocSet(df, features[i], IntCell(0))
                     ELSE df,
                     features, i + 1)

AlignFeatures(df, features) == SelectColumns(FillMissing(df, features, 1), features)

CheckpointEncode(features, raw) ==
    IF IsNone(features) THEN InputDf(raw)
    ELSE AlignFeatures(InputDf(raw), Val(features))

-----------------------------------------------------------------------------
(* Rendered output of one script run, and the opaque model.predict *)

Out(tags, errors, usd, inr) ==
    [tags |-> tags, errors |-> errors, usd |-> usd, inr |-> inr]

PredictResults ==
    {[ok |-> TRUE, value |-> s, error |-> ""] : s \in Salaries}
    \cup {[ok |-> FALSE, value |-> 0, error |-> e] : e \in PredictErrors}

NoResult == [ok |-> FALSE, value |-> 0, error |-> ""]

RunResult(x, n, res, o) == [X |-> x, calls |-> n, pred |-> res, out |-> o]
NoCall(o) == RunResult(NoneVal, 0, NoResult, o)

AppPredictHandlerFallback(names, wd, res) ==
    LET X == [cols |-> names, vals |-> [i \in 1..Len(names) |-> IntCell(0)]]
        salary_usd == res.value
    IN  RunResult(Some(X), 1, res,
            Out({"header", "radio", "inputs", "salary_card"}
                \cup (IF res.ok THEN {} ELSE {"prediction_failed"}),
                IF res.ok THEN {} ELSE {res.error},
                {salary_usd}, {}))

AppPredictHandler(names, wd, res) ==
    LET X == AppEncode(names, RawInput(wd))
        salary_usd == res.value
        salary_inr == salary_usd * USD_TO_INR
    IN  IF res.ok
        THEN RunResult(Some(X), 1, res,
                 Out({"header", "radio", "inputs", "balloons", "salary_card"}, {},
                     IF wd.currency \in {"USD", "Both"} THEN {salary_usd} ELSE {},
                     IF wd.currency \in {"INR", "Both"} THEN {salary_inr} ELSE {}))
        ELSE RunResult(Some(X), 1, res,
                 Out({"header", "radio", "inputs", "prediction_failed",
                      "debug_exception"}, {res.error}, {}, {}))

CheckpointPredictHandler(features, wd, res) ==
    LET input_df == CheckpointEncode(features, RawInput(wd))
        salary == res.value
    IN  IF res.ok
        THEN RunResult(Some(input_df), 1, res,
                 Out({"inputs", "predicted_salary", "monthly"}, {}, {salary}, {}))
        ELSE RunResult(Some(input_df), 1, res,
                 Out({"inputs", "prediction_failed", "exception"},
                     {res.error}, {}, {}))

-----------------------------------------------------------------------------
(* The cached loaders. A file is missing, corrupt (no deserializer reads   *)
(* it), readable by pickle only, or ok (joblib reads it).                  *)

Exists(f) == f # "missing"
JoblibLoads(f) == f = "ok"
PickleLoads(f) == f \in {"ok", "pickle_only"}

AppLoadModelKeepsModel(mf, ff, schema) ==
    IF mf # "ok"
    THEN [model |-> None, feature_names |-> NoneVal,
          error |-> "cannot load best_salary_model_random_forest.pkl"]
    ELSE IF ff # "ok"
    THEN [model |-> ModelObject, feature_names |-> NoneVal,
          error |-> "cannot load feature_names.pkl"]
    ELSE [model |-> ModelObject, feature_names |-> Some(schema), error |-> None]

AppLoadModel(mf, ff, schema) ==
    IF ~JoblibLoads(mf)
    THEN [model |-> None, feature_names |-> NoneVal,
          error |-> "cannot load best_salary_model_random_forest.pkl"]
    ELSE IF ~JoblibLoads(ff)
    THEN [model |-> None, feature_names |-> NoneVal,
          error |-> "cannot load feature_names.pkl"]
    ELSE [model |-> ModelObject, feature_names |-> Some(schema), error |-> None]

AppLoadData(df) ==
    IF JoblibLoads(df) THEN [data |-> DataFrameObject, error |-> None]
    ELSE [data |-> None, error |-> "cannot read clean_data.csv"]

joblib_tb == "joblib.load traceback"
pickle_tb == "pickle.load traceback"
combined == "Joblib loader traceback: " \o joblib_tb
            \o " Pickle loader traceback: " \o pickle_tb

CheckpointLoadModelPickleFirst(mf) ==
    IF mf = "missing"
    THEN [model |-> None, error |-> "Model file not found", tried |-> <<>>]
    ELSE IF mf \in {"ok", "pickle_only"}
    THEN [model |-> ModelObject, error |-> None, tried |-> <<"pickle">>]
    ELSE [model |-> None, error |-> combined, tried |-> <<"pickle", "joblib">>]

CheckpointLoadModel(mf) ==
    IF ~Exists(mf)
    THEN [model |-> None, error |-> "Model file not found", tried |-> <<>>]
    ELSE IF JoblibLoads(mf)
    THEN [model |-> ModelObject, error |-> None, tried |-> <<"joblib">>]
    ELSE IF PickleLoads(mf)
    THEN [model |-> ModelObject, error |-> None,
          tried |-> <<"joblib", "pickle">>]
    ELSE [model |-> None, error |-> combined, tried |-> <<"joblib", "pickle">>]

CheckpointLoadFeatures(ff, schema) ==
    IF ~Exists(ff) THEN [features |-> NoneVal, error |-> None]
    ELSE IF JoblibLoads(ff) THEN [features |-> Some(schema), error |-> None]
    ELSE IF PickleLoads(ff) THEN [features |-> Some(schema), error |-> None]
    ELSE [features |-> NoneVal, error |-> "features traceback"]

CheckpointLoadData(df) ==
    IF ~Exists(df) THEN [data |-> None, error |-> "Dataset not found"]
    ELSE IF JoblibLoads(df) THEN [data |-> DataFrameObject, error |-> None]
    ELSE [data |-> None, error |-> "read_csv traceback"]

-----------------------------------------------------------------------------
(* One run of the script, top to bottom *)

PredictPage(v) == IF v = "app" THEN "Salary Predictor" ELSE "Predict Salary"
Pages(v) ==
    IF v = "app" THEN {"Salary Predictor", "Market Analysis", "About"}
    ELSE {"Home", "Predict Salary", "Dataset Overview"}
DefaultPage(v) == IF v = "app" THEN "Salary Predictor" ELSE "Home"

AppScriptNeedsData(m, names, merr, d, pg, wd, click, res) ==
    IF m = None
    THEN NoCall(Out({"header", "model_loading_failed"}, {merr}, {}, {}))
    ELSE IF d = None
    THEN NoCall(Out({"header", "radio", "dataset_not_loaded"}, {}, {}, {}))
    ELSE IF pg = "Salary Predictor"
    THEN IF click THEN AppPredictHandler(Val(names), wd, res)
         ELSE NoCall(Out({"header", "radio", "inputs"}, {}, {}, {}))
    ELSE IF pg = "Market Analysis"
    THEN NoCall(Out({"header", "radio", "market_analysis"}, {}, {}, {}))
    ELSE NoCall(Out({"header", "radio", "about"}, {}, {}, {}))

AppScriptNoButton(m, names, merr, d, pg, wd, click, res) ==
    IF m = None
    THEN NoCall(Out({"header", "model_loading_failed"}, {merr}, {}, {}))
    ELSE IF pg = "Salary Predictor"
    THEN AppPredictHandler(Val(names), wd, res)
    ELSE IF pg = "Market Analysis"
    THEN IF d = None
         THEN NoCall(Out({"header", "radio", "dataset_not_loaded"}, {}, {}, {}))
         ELSE NoCall(Out({"header", "radio", "market_analysis"}, {}, {}, {}))
    ELSE NoCall(Out({"header", "radio", "about"}, {}, {}, {}))

AppScript(m, names, merr, d, pg, wd, click, res) ==
    IF m = None
    THEN NoCall(Out({"header", "model_loading_failed"}, {merr}, {}, {}))
    ELSE IF pg = "Salary Predictor"
    THEN IF click THEN AppPredictHandler(Val(names), wd, res)
         ELSE NoCall(Out({"header", "radio", "inputs"}, {}, {}, {}))
    ELSE IF pg = "Market Analysis"
    THEN IF d = None
         THEN NoCall(Out({"header", "radio", "dataset_not_loaded"}, {}, {}, {}))
         ELSE NoCall(Out({"header", "radio", "market_analysis"}, {}, {}, {}))
    ELSE NoCall(Out({"header", "radio", "about"}, {}, {}, {}))

Sidebar(m, merr, d, derr) ==
    Out({"radio"}
        \cup (IF m # None THEN {"sidebar_model_loaded"}
              ELSE {"sidebar_model_not_loaded"})
        \cup (IF d # None THEN {"sidebar_dataset_loaded"}
              ELSE {"sidebar_dataset_not_loaded"}),
        (IF m = None /\ merr # None THEN {merr} ELSE {})
        \cup (IF d = None /\ derr # None THEN {derr} ELSE {}),
        {}, {})

Merge(a, b) ==
    Out(a.tags \cup b.tags, a.errors \cup b.errors, a.usd \cup b.usd,
        a.inr \cup b.inr)

CheckpointPageUnguarded(m, feats, d, pg, wd, click, res) ==
    IF pg = "Home" THEN NoCall(Out({"home"}, {}, {}, {}))
    ELSE IF pg = "Predict Salary"
    THEN IF d = None
         THEN NoCall(Out({"model_or_dataset_not_loaded"}, {}, {}, {}))
         ELSE IF click THEN CheckpointPredictHandler(feats, wd, res)
         ELSE NoCall(Out({"inputs"}, {}, {}, {}))
    ELSE IF d = None
         THEN NoCall(Out({"dataset_not_loaded"}, {}, {}, {}))
         ELSE NoCall(Out({"dataset_overview"}, {}, {}, {}))

CheckpointPage(m, feats, d, pg, wd, click, res) ==
    IF pg = "Home" THEN NoCall(Out({"home"}, {}, {}, {}))
    ELSE IF pg = "Predict Salary"
    THEN IF m = None \/ d = None
         THEN NoCall(Out({"model_or_dataset_not_loaded"}, {}, {}, {}))
         ELSE IF click THEN CheckpointPredictHandler(feats, wd, res)
         ELSE NoCall(Out({"inputs"}, {}, {}, {}))
    ELSE IF d = None
         THEN NoCall(Out({"dataset_not_loaded"}, {}, {}, {}))
         ELSE NoCall(Out({"dataset_overview"}, {}, {}, {}))

CheckpointScript(m, feats, merr, d, derr, pg, wd, click, res) ==
    LET r == CheckpointPage(m, feats, d, pg, wd, click, res)
    IN  RunResult(r.X, r.calls, r.pred, Merge(Sidebar(m, merr, d, derr), r.out))

Script(v, m, feats, merr, d, derr, pg, wd, click, res) ==
    IF v = "app" THEN AppScript(m, feats, merr, d, pg, wd, click, res)
    ELSE CheckpointScript(m, feats, merr, d, derr, pg, wd, click, res)

(* The widgets a run rendered, hence what the user can act on next *)
RadioRendered == "radio" \in out.tags
InputsRendered == "inputs" \in out.tags

-----------------------------------------------------------------------------
(* Actions *)

NoMemo == [seen |-> NoneVal, last |-> NoneVal, mixed |-> FALSE]
NoLog == [model_file |-> "ok", tried |-> <<>>]

Init ==
    /\ variant \in Variants
    /\ loaded = FALSE
    /\ rf_model = None
    /\ feature_names = NoneVal
    /\ model_error = None
    /\ features_err = None
    /\ data = None
    /\ data_error = None
    /\ page = DefaultPage(variant)
    /\ w = WidgetDefaults(variant)
    /\ clicked = FALSE
    /\ X_input = NoneVal
    /\ calls = 0
    /\ pred = NoResult
    /\ out = Out({}, {}, {}, {})
    /\ edits = 0
    /\ load_runs = 0
    /\ load_log = NoLog
    /\ memo = NoMemo

Rendered(r) ==
    /\ X_input' = r.X
    /\ calls' = r.calls
    /\ pred' = r.pred
    /\ out' = r.out

(* What the module-level load calls return when the loaders' bodies run *)
Loaders(v, mf, ff, df, schema) ==
    IF v = "app"
    THEN LET am == AppLoadModel(mf, ff, schema)
             ad == AppLoadData(df)
         IN  [model |-> am.model, names |-> am.feature_names,
              merr |-> am.error, ferr |-> None,
              data |-> ad.data, derr |-> ad.error,
              log |-> [model_file |-> mf, tried |-> <<"joblib">>]]
    ELSE LET cm == CheckpointLoadModel(mf)
             cf == CheckpointLoadFeatures(ff, schema)
             cd == CheckpointLoadData(df)
         IN  [model |-> cm.model, names |-> cf.features,
              merr |-> cm.error, ferr |-> cf.error,
              data |-> cd.data, derr |-> cd.error,
              log |-> [model_file |-> mf, tried |-> cm.tried]]

(* What they return from the cache *)
Cached ==
    [model |-> rf_model, names |-> feature_names, merr |-> model_error,
     ferr |-> features_err, data |-> data, derr |-> data_error,
     log |-> load_log]

(* st.cache_resource / st.cache_data: a loader's body runs only when the   *)
(* cache holds no entry for it                                             *)
CacheMiss == FALSE

CacheHit == loaded

DiskStates ==
    IF CacheHit THEN {<<"ok", "ok", "ok", ExampleSchema>>}
    ELSE FileStates \X FileStates \X FileStates \X Schemas

(* The cached schema list as a run leaves it: the handler only reads it    *)
(* (pd.DataFrame copies the names; input_df[features] selects by them)     *)
SchemaAliasedToFrame(names, X) == IF X = <<>> THEN names ELSE <<X[1].cols>>

SchemaAfterRun(names, X) == names

(* One run of the script: the load calls, then the page *)
ScriptRun(pg, wd, click, res) ==
    /\ clicked' = click
    /\ loaded' = TRUE
    /\ \E disk \in DiskStates :
         LET ld == IF CacheHit THEN Cached
                   ELSE Loaders(variant, disk[1], disk[2], disk[3], disk[4])
             r == Script(variant, ld.model, ld.names, ld.merr, ld.data,
                         ld.derr, pg, wd, click, res)
         IN  /\ Rendered(r)
             /\ rf_model' = ld.model
             /\ feature_names' = SchemaAfterRun(ld.names, r.X)
             /\ model_error' = ld.merr
             /\ features_err' = ld.ferr
             /\ data' = ld.data
             /\ data_error' = ld.derr
             /\ load_log' = ld.log
             /\ load_runs' = IF CacheHit THEN load_runs ELSE load_runs + 1
    /\ UNCHANGED variant

(* The first script run: the cached loaders execute, then the page renders *)
FirstRun ==
    /\ ~loaded
    /\ ScriptRun(page, w, FALSE, NoResult)
    /\ UNCHANGED <<page, w, edits, memo>>

RunAgain(pg, wd, click, res) ==
    /\ loaded
    /\ ScriptRun(pg, wd, click, res)

(* A rerun with nothing changed *)
Rerun ==
    /\ loaded
    /\ RunAgain(page, w, FALSE, NoResult)
    /\ UNCHANGED <<page, w, edits, memo>>

(* The user picks another page in the sidebar *)
SelectPage ==
    /\ RadioRendered
    /\ \E p \in Pages(variant) \ {page} :
         /\ page' = p
         /\ RunAgain(p, w, FALSE, NoResult)
    /\ UNCHANGED <<w, edits, memo>>

ChangeInputOf(fields) ==
    /\ InputsRendered
    /\ edits < MaxEdits
    /\ edits' = edits + 1
    /\ \E f \in fields \cap WidgetFields(variant) :
         \E v \in WidgetOptions(variant, f) \ {w[f]} :
            /\ w' = [w EXCEPT ![f] = v]
            /\ RunAgain(page, w', FALSE, NoResult)
    /\ UNCHANGED <<page, memo>>

(* The user changes one input widget *)
ChangeInput == ChangeInputOf(RawFields \cup {"currency"})

ClickBody ==
    /\ InputsRendered
    /\ \E res \in PredictResults : RunAgain(page, w, TRUE, res)
    /\ UNCHANGED <<page, w, edits>>

(* The user clicks the Predict button *)
ClickPredict == ClickBody /\ UNCHANGED memo

(* A new browser session of the same process: widgets at their defaults *)
NewSession ==
    /\ loaded
    /\ page' = DefaultPage(variant)
    /\ w' = WidgetDefaults(variant)
    /\ RunAgain(page', w', FALSE, NoResult)
    /\ UNCHANGED <<edits, memo>>

Next ==
    FirstRun \/ Rerun \/ SelectPage \/ ChangeInput \/ ClickPredict
    \/ NewSession

Spec == Init /\ [][Next]_vars

-----------------------------------------------------------------------------
(* The Predict handler over all Raw Inputs: every state in which the       *)
(* artifacts are loaded and the Raw Input widgets hold any combination of  *)
(* their options, followed by clicks on Predict.                           *)

AllWidgets(v) ==
    [experience_level : DOMAIN experience_map,
     employment_type : DOMAIN employment_map,
     job_title : JobTitles,
     company_size : DOMAIN company_size_map,
     company_location : Countries,
     work_year : WorkYears,
     employee_residence : Countries,
     remote_ratio : RemoteOptions(v),
     currency : {WidgetDefaults(v).currency}]

InitEncode ==
    /\ variant \in Variants
    /\ loaded = TRUE
    /\ rf_model = ModelObject
    /\ feature_names \in {Some(sc) : sc \in Schemas}
                         \cup (IF variant = "checkpoint" THEN {NoneVal} ELSE {})
    /\ model_error = None
    /\ features_err = None
    /\ data = DataFrameObject
    /\ data_error = None
    /\ page = PredictPage(variant)
    /\ w \in AllWidgets(variant)
    /\ clicked = FALSE
    /\ X_input = NoneVal
    /\ calls = 0
    /\ pred = NoResult
    /\ out = Script(variant, rf_model, feature_names, model_error, data,
                    data_error, page, w, FALSE, NoResult).out
    /\ edits = 0
    /\ load_runs = 1
    /\ load_log = [model_file |-> "ok", tried |-> <<"joblib">>]
    /\ memo = NoMemo

NextEncode == ClickPredict

SpecEncode == InitEncode /\ [][NextEncode]_vars

-----------------------------------------------------------------------------
(* Clicks with a history: any click may be remembered, and the last frame  *)
(* built is kept, so that a later click on the same Raw Input can be       *)
(* compared with the remembered one.                                       *)

DetFields == {"job_title", "employee_residence", "remote_ratio"}

ChangeInputDet == ChangeInputOf(DetFields)

ClickTracked ==
    /\ ClickBody
    /\ \E remember \in BOOLEAN :
         memo' = [seen |-> IF remember
                           THEN Some([raw |-> RawInput(w), row |-> Val(X_input')])
                           ELSE memo.seen,
                  last |-> X_input',
                  mixed |-> /\ ~remember
                            /\ memo.seen # NoneVal
                            /\ \/ memo.mixed
                               \/ Val(memo.seen).raw # RawInput(w)]

NextDet == FirstRun \/ SelectPage \/ ChangeInputDet \/ ClickTracked

SpecDet == Init /\ [][NextDet]_vars

-----------------------------------------------------------------------------
(* Properties *)

Predicted == clicked /\ calls >= 1
Row == Val(X_input)
HasCol(df, name) == name \in Columns(df)
Range(seq) == {seq[i] : i \in 1..Len(seq)}
NoSalaryShown ==
    /\ out.usd = {}
    /\ out.inr = {}
    /\ out.tags \cap {"salary_card", "predicted_salary", "monthly", "balloons"} = {}

(* C1: whenever a Predict click hands a row to model.predict and a Feature *)
(* Schema is loaded, the row's columns are exactly the schema's names in   *)
(* the schema's order.                                                     *)
C1_RowHasExactlySchemaColumns ==
    (Predicted /\ ~IsNone(feature_names)) => Row.cols = Val(feature_names)

(* C2: in app.py, with the schema [experience_encoded,                     *)
(* company_size_encoded, job_Data Scientist, remote_ratio] and the input   *)
(* SE, L, Data Scientist, 100, the encoded row is exactly                  *)
(* {3, 3, 1, 100} on those four columns and holds nothing else.            *)
C2_ExampleRow ==
    ( /\ variant = "app"
      /\ Predicted
      /\ feature_names = Some(ExampleSchema)
      /\ w.experience_level = "SE"
      /\ w.company_size = "L"
      /\ w.job_title = "Data Scientist"
      /\ w.remote_ratio = 100 )
    => Row = [cols |-> ExampleSchema,
              vals |-> <<IntCell(3), IntCell(3), IntCell(1), IntCell(100)>>]

(* C3: once the model has failed to load, no script run calls              *)
(* model.predict or builds a row, none shows a salary, and every run shows *)
(* the loader's error.                                                     *)
C3_NoPredictionWithoutModel ==
    (loaded /\ rf_model = None)
    => /\ calls = 0
       /\ IsNone(X_input)
       /\ NoSalaryShown
       /\ model_error # None
       /\ model_error \in out.errors
       /\ out.tags \cap {"model_loading_failed", "sidebar_model_not_loaded"} # {}

C3_Witness ==
    /\ variant = "checkpoint"
    /\ loaded
    /\ rf_model = None
    /\ data # None
    /\ page = "Predict Salary"
    /\ "model_or_dataset_not_loaded" \in out.tags

(* C4 as stated: when no Feature Schema could be loaded, model.predict is  *)
(* never called, and a Predict click is answered by an error report.       *)
C4_NoPredictionWithoutSchema ==
    (loaded /\ IsNone(feature_names))
    => (calls = 0 /\ (clicked => out.errors # {}))

(* C4 amended: in app.py a failed schema load fails load_model as a whole, *)
(* so model.predict is never called and the load error is shown; in the    *)
(* checkpoint variant the schema is optional: its load failure is never    *)
(* shown and a Predict click submits the raw eight-column input row.       *)
C4_SchemaRequiredInAppOnly ==
    /\ (variant = "app" /\ loaded /\ IsNone(feature_names))
       => /\ rf_model = None
          /\ calls = 0
          /\ model_error \in out.errors
          /\ "model_loading_failed" \in out.tags
    /\ (variant = "checkpoint" /\ Predicted /\ IsNone(feature_names))
       => /\ calls = 1
          /\ Row.cols = <<"experience_level", "employment_type", "job_title",
                          "remote_ratio", "company_size", "work_year",
                          "employee_residence", "company_location">>
    /\ (variant = "checkpoint" /\ features_err # None)
       => features_err \notin out.errors

C4_Witness ==
    /\ variant = "app"
    /\ loaded
    /\ model_error = "cannot load feature_names.pkl"
    /\ "model_loading_failed" \in out.tags

(* C5: when model.predict raises during a Predict click, the run shows the *)
(* underlying error, shows no salary figure in either currency, and has    *)
(* called model.predict exactly once.                                      *)
C5_PredictFailureReported ==
    (Predicted /\ ~pred.ok)
    => /\ calls = 1
       /\ pred.error \in out.errors
       /\ "prediction_failed" \in out.tags
       /\ NoSalaryShown

C5_Witness ==
    /\ variant = "app"
    /\ Predicted
    /\ ~pred.ok
    /\ pred.error \in PredictErrors

(* C6: in app.py each of the three one-hot names built from the input is   *)
(* set to 1 when the schema has it and is no column of the row when the    *)
(* schema lacks it; encoding still reaches model.predict; every other      *)
(* indicator column of the schema is 0.                                    *)
IndicatorNames ==
    {"job_" \o t : t \in JobTitles}
    \cup {"emp_country_" \o c : c \in Countries}
    \cup {"comp_country_" \o c : c \in Countries}

C6_OneHotLookupOrSkip ==
    (variant = "app" /\ clicked)
    => LET names == Range(Val(feature_names))
           mine == {"job_" \o w.job_title,
                    "emp_country_" \o w.employee_residence,
                    "comp_country_" \o w.company_location}
       IN  /\ calls = 1
           /\ \A c \in mine :
                IF c \in names
                THEN HasCol(Row, c) /\ CellOf(Row, c) = IntCell(1)
                ELSE ~HasCol(Row, c)
           /\ \A c \in (IndicatorNames \cap names) \ mine :
                CellOf(Row, c) = IntCell(0)

C6_Witness ==
    /\ variant = "app"
    /\ Predicted
    /\ feature_names = Some(FullSchema)
    /\ w.job_title = "ML Engineer"
    /\ w.employee_residence = "US"
    /\ ~HasCol(Row, "job_ML Engineer")
    /\ CellOf(Row, "emp_country_US") = IntCell(1)
    /\ CellOf(Row, "emp_country_IN") = IntCell(0)

(* C7: in app.py's encoded row, remote_ratio 100 gives is_remote 1 and     *)
(* is_hybrid 0, remote_ratio 50 gives is_remote 0 and is_hybrid 1, any     *)
(* other value gives both 0; the two are never both 1.                     *)
C7_RemoteFlags ==
    (variant = "app" /\ Predicted)
    => /\ HasCol(Row, "is_remote")
       /\ HasCol(Row, "is_hybrid")
       /\ CellOf(Row, "is_remote") =
            IntCell(IF w.remote_ratio = 100 THEN 1 ELSE 0)
       /\ CellOf(Row, "is_hybrid") =
            IntCell(IF w.remote_ratio = 50 THEN 1 ELSE 0)
       /\ ~(CellOf(Row, "is_remote") = IntCell(1)
            /\ CellOf(Row, "is_hybrid") = IntCell(1))

C7_Witness ==
    /\ variant = "app"
    /\ Predicted
    /\ w.remote_ratio = 50
    /\ CellOf(Row, "is_hybrid") = IntCell(1)
    /\ CellOf(Row, "is_remote") = IntCell(0)

(* C8: in app.py's encoded row, same_location is 1 exactly when the        *)
(* employee residence code equals the company location code, else 0.       *)
C8_SameLocation ==
    (variant = "app" /\ Predicted)
    => /\ HasCol(Row, "same_location")
       /\ CellOf(Row, "same_location") =
            IntCell(IF w.employee_residence = w.company_location THEN 1 ELSE 0)

C8_Witness ==
    /\ variant = "app"
    /\ Predicted
    /\ w.employee_residence # w.company_location
    /\ CellOf(Row, "same_location") = IntCell(0)

(* C9: in every variant, the row submitted to model.predict carries        *)
(* experience_encoded, company_size_encoded and employment_type_encoded    *)
(* with the ranks EN 1, MI 2, SE 3, EX 4; S 1, M 2, L 3; PT 1, FL 2, CT 3, *)
(* FT 4 of the input.                                                      *)
C9_RanksInEveryVariant ==
    Predicted
    => /\ HasCol(Row, "experience_encoded")
       /\ CellOf(Row, "experience_encoded") =
            IntCell([EN |-> 1, MI |-> 2, SE |-> 3, EX |-> 4][w.experience_level])
       /\ HasCol(Row, "company_size_encoded")
       /\ CellOf(Row, "company_size_encoded") =
            IntCell([S |-> 1, M |-> 2, L |-> 3][w.company_size])
       /\ HasCol(Row, "employment_type_encoded")
       /\ CellOf(Row, "employment_type_encoded") =
            IntCell([PT |-> 1, FL |-> 2, CT |-> 3, FT |-> 4][w.employment_type])

(* C10: a Predict click on the Raw Input of a remembered earlier click     *)
(* builds the same row as that click did, whatever was encoded in between. *)
C10_SameInputSameRow ==
    (Predicted /\ memo.seen # NoneVal /\ Val(memo.seen).raw = RawInput(w))
    => Val(memo.seen).row = Row

C10_Witness ==
    /\ variant = "app"
    /\ Predicted
    /\ memo.seen # NoneVal
    /\ Val(memo.seen).raw = RawInput(w)
    /\ memo.mixed
    /\ Val(memo.seen).row = Row

(* C11: once the artifacts are loaded, no script run (page switch, widget   *)
(* change, Predict click that succeeds or fails) writes the Feature Schema *)
(* list or the model object: both are after the run what they were before. *)
C11_ArtifactsNeverWritten ==
    [][loaded => (feature_names' = feature_names /\ rf_model' = rf_model)]_vars

C11_Witness ==
    /\ variant = "app"
    /\ Predicted
    /\ ~pred.ok
    /\ feature_names = Some(ExampleSchema)
    /\ Row.cols # ExampleSchema

(* C12 as stated: every Predict click builds one row, calls model.predict  *)
(* once and yields one Prediction Result; a run without a click calls      *)
(* model.predict not at all.                                               *)
C12_OneRowOneCallOneResult ==
    /\ clicked => (~IsNone(X_input) /\ calls = 1 /\ pred.ok
                   /\ out.usd \cup out.inr # {})
    /\ ~clicked => calls = 0

(* C12 amended: every Predict click builds one row and calls model.predict *)
(* exactly once; it yields one Prediction Result when the call returns and *)
(* none (an error report instead) when the call raises; a run without a    *)
(* click builds no row, calls model.predict not at all and shows no        *)
(* salary.                                                                 *)
C12_OneRowOneCallPerClick ==
    /\ clicked => /\ ~IsNone(X_input)
                  /\ calls = 1
                  /\ pred.ok => /\ out.usd \cup out.inr # {}
                                /\ out.usd \subseteq {pred.value}
                                /\ out.inr \subseteq {pred.value * USD_TO_INR}
                  /\ ~pred.ok => (NoSalaryShown /\ pred.error \in out.errors)
    /\ ~clicked => (IsNone(X_input) /\ calls = 0 /\ NoSalaryShown)

C12_Witness ==
    /\ variant = "checkpoint"
    /\ clicked
    /\ calls = 1
    /\ pred.ok
    /\ out.usd = {pred.value}

(* C13: the bodies of the cached loaders run once per process, in the      *)
(* first script run, however many reruns, clicks and sessions follow.      *)
C13_LoadedOnce ==
    /\ load_runs <= 1
    /\ loaded <=> load_runs = 1

C13_Witness ==
    /\ loaded
    /\ load_runs = 1
    /\ Predicted
    /\ edits >= 1

(* C14 as stated: with the model and the Feature Schema loaded and the     *)
(* dataset not, the Predict page still offers the Predict button and a     *)
(* click still reaches model.predict.                                      *)
C14_DatasetOptional ==
    ( /\ loaded
      /\ rf_model # None
      /\ ~IsNone(feature_names)
      /\ data = None
      /\ page = PredictPage(variant) )
    => (InputsRendered /\ (clicked => calls = 1))

(* C14 amended: in app.py the dataset is optional for prediction: without  *)
(* it the Predict page still offers the button, a click still reaches      *)
(* model.predict, and only the Market Analysis page is unavailable. In the *)
(* checkpoint variant the dataset is required: without it the Predict page *)
(* shows an error, offers no button, and model.predict is never called.    *)
C14_DatasetOptionalInAppOnly ==
    /\ (variant = "app" /\ loaded /\ rf_model # None /\ data = None)
       => /\ page = "Salary Predictor"
             => (InputsRendered /\ (clicked => (calls = 1 /\ ~IsNone(X_input))))
          /\ page = "Market Analysis"
             => ("dataset_not_loaded" \in out.tags
                 /\ "market_analysis" \notin out.tags)
          /\ page = "About" => "about" \in out.tags
    /\ (variant = "checkpoint" /\ loaded /\ data = None)
       => /\ ~InputsRendered
          /\ ~clicked
          /\ calls = 0
          /\ page = "Predict Salary"
             => "model_or_dataset_not_loaded" \in out.tags
          /\ page = "Dataset Overview" => "dataset_not_loaded" \in out.tags

C14_Witness ==
    /\ variant = "app"
    /\ loaded
    /\ data = None
    /\ Predicted
    /\ pred.ok
    /\ out.usd # {}

(* C15: the checkpoint's load_model attempts nothing on a missing file and *)
(* returns (None, 'Model file not found'); otherwise it tries joblib       *)
(* first and pickle only after joblib raised, returns (model, None) as     *)
(* soon as one succeeds and (None, error with both tracebacks) when both   *)
(* raised; exactly one of model and error is None.                         *)
C15_LoadModelOrder ==
    (variant = "checkpoint" /\ loaded)
    => LET f == load_log.model_file
           t == load_log.tried
       IN  /\ f = "missing"
              => (t = <<>> /\ rf_model = None
                  /\ model_error = "Model file not found")
           /\ f # "missing" => (Len(t) >= 1 /\ t[1] = "joblib")
           /\ Len(t) >= 2 => (t = <<"joblib", "pickle">> /\ f # "ok")
           /\ f = "ok"
              => (t = <<"joblib">> /\ rf_model = ModelObject
                  /\ model_error = None)
           /\ f = "pickle_only"
              => (t = <<"joblib", "pickle">> /\ rf_model = ModelObject
                  /\ model_error = None)
           /\ f = "corrupt"
              => (t = <<"joblib", "pickle">> /\ rf_model = None
                  /\ model_error =
                       "Joblib loader traceback: joblib.load traceback Pickle loader traceback: pickle.load traceback")
           /\ (rf_model = None) # (model_error = None)

C15_Witness ==
    /\ variant = "checkpoint"
    /\ loaded
    /\ load_log.model_file = "pickle_only"
    /\ load_log.tried = <<"joblib", "pickle">>
    /\ rf_model = ModelObject

(* C16: app.py's load_model leaves either model, schema and no error, or   *)
(* no model, no schema and an error; a model whose feature-names file      *)
(* failed is discarded; a row is built or submitted only with both.        *)
C16_AtomicLoad ==
    (variant = "app" /\ loaded)
    => /\ \/ (rf_model # None /\ ~IsNone(feature_names) /\ model_error = None)
          \/ (rf_model = None /\ IsNone(feature_names) /\ model_error # None)
       /\ (load_log.model_file = "ok" /\ IsNone(feature_names))
          => rf_model = None
       /\ (~IsNone(X_input) \/ calls > 0)
          => (rf_model # None /\ ~IsNone(feature_names))

C16_Witness ==
    /\ variant = "app"
    /\ loaded
    /\ load_log.model_file = "ok"
    /\ IsNone(feature_names)
    /\ rf_model = None
    /\ "model_loading_failed" \in out.tags
    /\ IsNone(X_input)

====
